---- MODULE Spec2Model ----
(***************************************************************************)
(* A model of sketch (src/main.go): the Bresenham traversal shared by      *)
(* line, bdiff and bcopy, the two-canvas convergence loop of sketch, the   *)
(* asynchronous save task and the frame loops of main.                     *)
(*                                                                         *)
(* Units.  Time is counted in ticks of half a second, so that fractional   *)
(* values of the -s and -t options can be stated: saveDelay and statDelay  *)
(* hold a number of half seconds.                                          *)
(***************************************************************************)
EXTENDS Integers, Sequences, FiniteSets, TLC

(***************************************************************************)
(* Bounds of the model.                                                    *)
(***************************************************************************)
MaxCoord == 3
MaxIter == 2
MaxTime == 2
MaxFiles == 3

(***************************************************************************)
(* Colours and images (image/color.RGBA, image.RGBA).  A colour is the     *)
(* tuple <<R, G, B, A>> of its 8-bit channels; an image is its width, its  *)
(* height and its pixels in row-major order (Pix, one entry per pixel).    *)
(* The bounds of every image start at (0, 0).                              *)
(***************************************************************************)
Zero == <<0, 0, 0, 0>>
\* Mutant: canvases cleared to transparent black.
bgTransparent == <<0, 0, 0, 0>>

bg == <<0, 0, 0, 255>>
White == <<255, 255, 255, 255>>
Red == <<255, 0, 0, 255>>
Grey == <<128, 128, 128, 255>>

Abs(n) == IF n < 0 THEN -n ELSE n

InRect(img, x, y) == x >= 0 /\ x < img.w /\ y >= 0 /\ y < img.h

PixOffset(img, x, y) == y * img.w + x + 1

\* image.RGBA.RGBAAt: the zero colour outside the bounds.
RGBAAt(img, x, y) ==
    IF InRect(img, x, y) THEN img.pix[PixOffset(img, x, y)] ELSE Zero

\* Mutant: the test is of the offset in Pix, not of the point.
SetRGBAByOffset(img, x, y, c) ==
    IF PixOffset(img, x, y) \in 1..Len(img.pix)
    THEN [img EXCEPT !.pix[PixOffset(img, x, y)] = c]
    ELSE img

\* image.RGBA.SetRGBA: no effect outside the bounds.
SetRGBA(img, x, y, c) ==
    IF InRect(img, x, y)
    THEN [img EXCEPT !.pix[PixOffset(img, x, y)] = c]
    ELSE img

\* image.NewRGBA followed by draw.Draw of a uniform colour.
NewUniform(w, h, c) == [w |-> w, h |-> h, pix |-> [k \in 1..(w * h) |-> c]]

(***************************************************************************)
(* The traversal of line: its set-up (the code before the loop), the exit  *)
(* test and one pass of the error update.                                  *)
(***************************************************************************)
lineSetup(x0, y0, x1, y1) ==
    LET dx == IF x1 - x0 < 0 THEN -(x1 - x0) ELSE x1 - x0
        dy == IF y1 - y0 < 0 THEN -(y1 - y0) ELSE y1 - y0
        sx == IF x0 < x1 THEN 1 ELSE -1
        sy == IF y0 < y1 THEN 1 ELSE -1
    IN  [x0 |-> x0, y0 |-> y0, x1 |-> x1, y1 |-> y1,
         dx |-> dx, dy |-> dy, sx |-> sx, sy |-> sy, err |-> dx - dy]

\* Mutant: the exit test with || for &&.
lineAtEndEither(s) == s.x0 = s.x1 \/ s.y0 = s.y1

lineAtEnd(s) == s.x0 = s.x1 /\ s.y0 = s.y1

\* Mutant: the second if of the loop body as an else-if.
lineStepElse(s) ==
    LET e2 == 2 * s.err
        mx == e2 > -s.dy
        my == ~mx /\ e2 < s.dx
        e1 == IF mx THEN s.err - s.dy ELSE s.err
    IN  [s EXCEPT !.err = IF my THEN e1 + s.dx ELSE e1,
                  !.x0 = IF mx THEN s.x0 + s.sx ELSE s.x0,
                  !.y0 = IF my THEN s.y0 + s.sy ELSE s.y0]

lineStep(s) ==
    LET e2 == 2 * s.err
        mx == e2 > -s.dy
        my == e2 < s.dx
        e1 == IF mx THEN s.err - s.dy ELSE s.err
    IN  [s EXCEPT !.err = IF my THEN e1 + s.dx ELSE e1,
                  !.x0 = IF mx THEN s.x0 + s.sx ELSE s.x0,
                  !.y0 = IF my THEN s.y0 + s.sy ELSE s.y0]

RECURSIVE lineLoop(_, _, _)
lineLoop(img, s, clr) ==
    LET im == SetRGBA(img, s.x0, s.y0, clr)
    IN  IF lineAtEnd(s) THEN im ELSE lineLoop(im, lineStep(s), clr)

line(img, x0, y0, x1, y1, clr) == lineLoop(img, lineSetup(x0, y0, x1, y1), clr)

\* The pixels the loop of line sets, in order.
RECURSIVE linePath(_)
linePath(s) ==
    IF lineAtEnd(s) THEN << <<s.x0, s.y0>> >>
    ELSE << <<s.x0, s.y0>> >> \o linePath(lineStep(s))

(***************************************************************************)
(* calcDiff and bdiff.  The channels are converted to float64 before they  *)
(* are subtracted; every value that arises is an integer far below 2^53,   *)
(* so the float64 arithmetic is exact and integers model it.               *)
(***************************************************************************)
\* Mutant: the channels subtracted as uint8, before the conversion.
calcDiffUint8(img1, img2, x, y) ==
    LET a == RGBAAt(img1, x, y)
        b == RGBAAt(img2, x, y)
        d(k) == (b[k] - a[k]) % 256
    IN  d(1) * d(1) + d(2) * d(2) + d(3) * d(3) + d(4) * d(4)

calcDiff(img1, img2, x, y) ==
    LET a == RGBAAt(img1, x, y)
        b == RGBAAt(img2, x, y)
    IN  (b[1] - a[1]) * (b[1] - a[1]) + (b[2] - a[2]) * (b[2] - a[2])
      + (b[3] - a[3]) * (b[3] - a[3]) + (b[4] - a[4]) * (b[4] - a[4])

bdiffSetup(x0, y0, x1, y1) ==
    LET dx == IF x1 - x0 < 0 THEN -(x1 - x0) ELSE x1 - x0
        dy == IF y1 - y0 < 0 THEN -(y1 - y0) ELSE y1 - y0
        sx == IF x0 < x1 THEN 1 ELSE -1
        sy == IF y0 < y1 THEN 1 ELSE -1
    IN  [x0 |-> x0, y0 |-> y0, x1 |-> x1, y1 |-> y1,
         dx |-> dx, dy |-> dy, sx |-> sx, sy |-> sy, err |-> dx - dy]

\* Mutant: the first test of the loop body with >= for >.
bdiffStepGe(s) ==
    LET e2 == 2 * s.err
        mx == e2 >= -s.dy
        my == e2 < s.dx
        e1 == IF mx THEN s.err - s.dy ELSE s.err
    IN  [s EXCEPT !.err = IF my THEN e1 + s.dx ELSE e1,
                  !.x0 = IF mx THEN s.x0 + s.sx ELSE s.x0,
                  !.y0 = IF my THEN s.y0 + s.sy ELSE s.y0]

bdiffStep(s) ==
    LET e2 == 2 * s.err
        mx == e2 > -s.dy
        my == e2 < s.dx
        e1 == IF mx THEN s.err - s.dy ELSE s.err
    IN  [s EXCEPT !.err = IF my THEN e1 + s.dx ELSE e1,
                  !.x0 = IF mx THEN s.x0 + s.sx ELSE s.x0,
                  !.y0 = IF my THEN s.y0 + s.sy ELSE s.y0]

RECURSIVE bdiffLoop(_, _, _, _)
bdiffLoop(a, b, s, dif) ==
    LET d == dif + calcDiff(a, b, s.x0, s.y0)
    IN  IF s.x0 = s.x1 /\ s.y0 = s.y1 THEN d ELSE bdiffLoop(a, b, bdiffStep(s), d)

\* The pixels the loop of bdiff scores, in order.
RECURSIVE bdiffPath(_)
bdiffPath(s) ==
    IF s.x0 = s.x1 /\ s.y0 = s.y1 THEN << <<s.x0, s.y0>> >>
    ELSE << <<s.x0, s.y0>> >> \o bdiffPath(bdiffStep(s))

\* Mutant: the score leaves out the first pixel of the line.
bdiffSkipFirst(a, b, x0, y0, x1, y1) ==
    bdiffLoop(a, b, bdiffSetup(x0, y0, x1, y1), 0) - calcDiff(a, b, x0, y0)

bdiff(a, b, x0, y0, x1, y1) == bdiffLoop(a, b, bdiffSetup(x0, y0, x1, y1), 0)

(***************************************************************************)
(* bcopy.                                                                  *)
(***************************************************************************)
bcopySetup(x0, y0, x1, y1) ==
    LET dx == IF x1 - x0 < 0 THEN -(x1 - x0) ELSE x1 - x0
        dy == IF y1 - y0 < 0 THEN -(y1 - y0) ELSE y1 - y0
        sx == IF x0 < x1 THEN 1 ELSE -1
        sy == IF y0 < y1 THEN 1 ELSE -1
    IN  [x0 |-> x0, y0 |-> y0, x1 |-> x1, y1 |-> y1,
         dx |-> dx, dy |-> dy, sx |-> sx, sy |-> sy, err |-> dx - dy]

bcopyStep(s) ==
    LET e2 == 2 * s.err
        mx == e2 > -s.dy
        my == e2 < s.dx
        e1 == IF mx THEN s.err - s.dy ELSE s.err
    IN  [s EXCEPT !.err = IF my THEN e1 + s.dx ELSE e1,
                  !.x0 = IF mx THEN s.x0 + s.sx ELSE s.x0,
                  !.y0 = IF my THEN s.y0 + s.sy ELSE s.y0]

\* Mutant: the pixel is read from dst, so nothing is copied.
bcopyLoopSelf(dst, src, s) == dst

RECURSIVE bcopyLoop(_, _, _)
bcopyLoop(dst, src, s) ==
    LET d == SetRGBA(dst, s.x0, s.y0, RGBAAt(src, s.x0, s.y0))
    IN  IF s.x0 = s.x1 /\ s.y0 = s.y1 THEN d ELSE bcopyLoop(d, src, bcopyStep(s))

\* The pixels the loop of bcopy copies, in order.
RECURSIVE bcopyPath(_)
bcopyPath(s) ==
    IF s.x0 = s.x1 /\ s.y0 = s.y1 THEN << <<s.x0, s.y0>> >>
    ELSE << <<s.x0, s.y0>> >> \o bcopyPath(bcopyStep(s))

\* Mutant: the loop's exit test comes before the pixel's copy, so the second
\* endpoint is not copied.
RECURSIVE bcopyLoopNoEnd(_, _, _)
bcopyLoopNoEnd(dst, src, s) ==
    IF s.x0 = s.x1 /\ s.y0 = s.y1 THEN dst
    ELSE bcopyLoopNoEnd(SetRGBA(dst, s.x0, s.y0, RGBAAt(src, s.x0, s.y0)), src,
                        bcopyStep(s))

bcopyNoEnd(dst, src, x0, y0, x1, y1) ==
    bcopyLoopNoEnd(dst, src, bcopySetup(x0, y0, x1, y1))

bcopy(dst, src, x0, y0, x1, y1) == bcopyLoop(dst, src, bcopySetup(x0, y0, x1, y1))

(***************************************************************************)
(* The state of the program.                                               *)
(***************************************************************************)
VARIABLES
    maxIter, frameStart, frameLimit, lineLen, palUniq, saveDelay, statDelay, par,
    nargs,          \* flag.NArg()
    nfiles,         \* how many of the input files, in order, open and decode
    lastfile,       \* what the file after those is: "missing" or "corrupt"
    source,         \* the image every good input file decodes to
    now,            \* the clock, in ticks
    proc,           \* "run", "done" (main returned), "fatal_open", "fatal_decode",
                    \* "fatal_create" (log.Fatal), "panic"
    ended,          \* "end of frames" was logged
    pc,             \* where the main goroutine is
    frame, argi,    \* main's frame and loop index
    img, palette, img1, img2, lastSaveTime, lastStatTime, stati, statc, i,
    x1, y1, x2, y2, clr, diffimg1, diffimg2,
    diffwait,       \* the diff goroutines that have not called diffwait.Done
    tnow,           \* sketch's local variable now
    incrSaveNum, saveNum, saveScratch, savewait,
    saveArg,        \* the arguments of the call of save in progress
    tasks,          \* the goroutines started by save, oldest first
    written,        \* the files the save goroutines have finished
    lnP, lnS, lnVisited, lnPc,  \* one call of line followed pass by pass: its
                                \* first endpoint, its variables, the pixels set
    dfA, dfB, dfP,  \* one use of bdiff by itself: two images, the endpoints
    dfR, dfPc       \* <<x0, y0, x1, y1>>, the scores returned

flagVars == <<maxIter, frameStart, frameLimit, lineLen, palUniq, saveDelay,
              statDelay, par>>
envVars == <<nargs, nfiles, lastfile, source>>
mainVars == <<proc, ended, pc, frame, argi>>
canvasVars == <<img, palette, img1, img2>>
statVars == <<lastSaveTime, lastStatTime, stati, statc, tnow>>
propVars == <<x1, y1, x2, y2, clr, diffimg1, diffimg2, diffwait>>
saveVars == <<incrSaveNum, saveNum, saveScratch, savewait, saveArg, tasks, written>>
lnVars == <<lnP, lnS, lnVisited, lnPc>>
dfVars == <<dfA, dfB, dfP, dfR, dfPc>>
vars == <<flagVars, envVars, now, mainVars, canvasVars, statVars, i, propVars,
          saveVars, lnVars, dfVars>>

(***************************************************************************)
(* Program constants.                                                      *)
(***************************************************************************)
TicksPerSecond == 2
StatCheckEvery == 50

\* Go's integer division truncates toward zero.
GoDiv(a, b) == IF a >= 0 THEN a \div b ELSE -((-a) \div b)

\* time.Duration(d) * time.Second for a float64 d of d2 half seconds: the
\* conversion to the integer type Duration drops the fraction of d.
DurationSeconds(d2) == GoDiv(d2, TicksPerSecond) * TicksPerSecond

\* A nil *image.RGBA.
NilImage == [w |-> -1, h |-> -1, pix |-> <<>>]

\* The builtin copy on two Pix slices: the first min(len) elements.
CopyPix(dst, src) ==
    [k \in 1..Len(dst) |-> IF k <= Len(src) THEN src[k] ELSE dst[k]]

(***************************************************************************)
(* The palette loop of sketch: pixel k of the raster scan is (k % w, k / w).*)
(***************************************************************************)
RECURSIVE PaletteLoop(_, _, _, _)
PaletteLoop(im, uniq, k, pal) ==
    IF k >= im.w * im.h THEN pal
    ELSE LET c == RGBAAt(im, k % im.w, k \div im.w)
         IN  IF uniq
             THEN IF \E j \in 1..Len(pal) : pal[j] = c
                  THEN PaletteLoop(im, uniq, k + 1, pal)
                  ELSE PaletteLoop(im, uniq, k + 1, Append(pal, c))
             ELSE PaletteLoop(im, uniq, k + 1, Append(pal, c))

\* Mutant: the palette of every pixel, whatever the -p flag.
BuildPaletteNoDedup(im, uniq) ==
    IF im.w <= 0 \/ im.h <= 0 THEN <<>> ELSE PaletteLoop(im, FALSE, 0, <<>>)

BuildPalette(im, uniq) ==
    IF im.w <= 0 \/ im.h <= 0 THEN <<>> ELSE PaletteLoop(im, uniq, 0, <<>>)

(***************************************************************************)
(* The input files.  File k (from 0) is the k-th argument, or, without     *)
(* arguments, input%03d.png numbered frameStart + k.                       *)
(***************************************************************************)
FileStatus(k) ==
    IF k < nfiles THEN "ok" ELSE IF k = nfiles THEN lastfile ELSE "missing"

MainPc == IF nargs > 0 THEN "args" ELSE "frames"

(***************************************************************************)
(* main with file arguments: one pass of the loop over flag.Args, up to    *)
(* the call of sketch.                                                     *)
(***************************************************************************)
MainArgs ==
    /\ proc = "run" /\ pc = "args"
    /\ IF argi < nargs
       THEN CASE FileStatus(argi) = "missing" ->
                     ended' = TRUE /\ proc' = "done" /\ pc' = pc
              [] FileStatus(argi) = "corrupt" ->
                     proc' = "fatal_decode" /\ UNCHANGED <<ended, pc>>
              [] OTHER ->
                     pc' = "sketch" /\ UNCHANGED <<ended, proc>>
       ELSE ended' = TRUE /\ proc' = "done" /\ pc' = pc
    /\ UNCHANGED <<flagVars, envVars, now, frame, argi, canvasVars, statVars, i,
                   propVars, saveVars, lnVars, dfVars>>

(***************************************************************************)
(* main without file arguments: one pass of the loop over the numbered     *)
(* input files, up to the call of sketch.                                  *)
(***************************************************************************)
FrameLimitReached(lim, fr, start) == lim > 1 /\ fr - start > lim

MainFrames ==
    /\ proc = "run" /\ pc = "frames"
    /\ IF FrameLimitReached(frameLimit, frame, frameStart)
       THEN ended' = TRUE /\ proc' = "done" /\ pc' = pc
       ELSE CASE FileStatus(frame - frameStart) = "missing" ->
                     proc' = "fatal_open" /\ UNCHANGED <<ended, pc>>
              [] FileStatus(frame - frameStart) = "corrupt" ->
                     proc' = "fatal_decode" /\ UNCHANGED <<ended, pc>>
              [] OTHER ->
                     pc' = "sketch" /\ UNCHANGED <<ended, proc>>
    /\ UNCHANGED <<flagVars, envVars, now, frame, argi, canvasVars, statVars, i,
                   propVars, saveVars, lnVars, dfVars>>

(***************************************************************************)
(* sketch up to its loop: the palette, the two black canvases, the timers. *)
(* A save goroutine still running holds the previous run's img2, which     *)
(* nothing writes any more: it keeps that canvas as it is now.             *)
(***************************************************************************)
SketchStart ==
    /\ proc = "run" /\ pc = "sketch"
    /\ img' = source
    /\ palette' = BuildPalette(source, palUniq)
    /\ img1' = NewUniform(source.w, source.h, bg)
    /\ img2' = NewUniform(source.w, source.h, bg)
    /\ lastSaveTime' = now
    /\ lastStatTime' = now
    /\ stati' = 0 /\ statc' = 0
    /\ i' = 0
    /\ tasks' = [k \in DOMAIN tasks |->
                    IF tasks[k].live
                    THEN [tasks[k] EXCEPT !.live = FALSE, !.pix = img2.pix]
                    ELSE tasks[k]]
    /\ pc' = "loop"
    /\ UNCHANGED <<flagVars, envVars, now, proc, ended, frame, argi, tnow, propVars,
                   incrSaveNum, saveNum, saveScratch, savewait, saveArg, written,
                   lnVars, dfVars>>

(***************************************************************************)
(* The head of the loop of sketch: the loop test; then either the random   *)
(* proposal and its draw on img1, or the final save's call.  rand.Intn     *)
(* panics on an argument that is not positive.  An unbounded run           *)
(* (maxIter < 0) is followed for MaxIter + 1 iterations.                   *)
(***************************************************************************)
\* Mutant: the loop test with <= for <.
LoopCondOffByOne(k, max) == k <= max \/ max < 0

LoopCond(k, max) == k < max \/ max < 0

Propose ==
    /\ proc = "run" /\ pc = "loop"
    /\ IF LoopCond(i, maxIter)
       THEN /\ maxIter < 0 => i <= MaxIter
            /\ IF img.w <= 0 \/ img.h <= 0 \/ lineLen <= 0 \/ Len(palette) = 0
               THEN /\ proc' = "panic"
                    /\ stati' = stati + 1
                    /\ UNCHANGED <<pc, x1, y1, x2, y2, clr, img1, saveArg>>
               ELSE \E ax \in 0..(img.w - 1), ay \in 0..(img.h - 1),
                       ox \in 0..(lineLen - 1), oy \in 0..(lineLen - 1),
                       ci \in 1..Len(palette) :
                        /\ stati' = stati + 1
                        /\ x1' = ax
                        /\ y1' = ay
                        /\ x2' = GoDiv(-lineLen, 2) + ax + ox
                        /\ y2' = GoDiv(-lineLen, 2) + ay + oy
                        /\ clr' = palette[ci]
                        /\ img1' = line(img1, ax, ay,
                                        GoDiv(-lineLen, 2) + ax + ox,
                                        GoDiv(-lineLen, 2) + ay + oy, palette[ci])
                        /\ pc' = "diff"
                        /\ UNCHANGED <<proc, saveArg>>
       ELSE /\ saveArg' = [kind |-> "frame", num |-> saveNum, atCall |-> img2.pix]
            /\ pc' = "save"
            /\ UNCHANGED <<proc, stati, x1, y1, x2, y2, clr, img1>>
    /\ UNCHANGED <<flagVars, envVars, now, ended, frame, argi, img, palette, img2,
                   lastSaveTime, lastStatTime, statc, tnow, i, diffimg1, diffimg2,
                   diffwait, incrSaveNum, saveNum, saveScratch, savewait, tasks,
                   written, lnVars, dfVars>>

(***************************************************************************)
(* The two scores: in sequence, or with -P by two goroutines that the      *)
(* decision waits for (diffwait).                                          *)
(***************************************************************************)
Diff ==
    /\ proc = "run" /\ pc = "diff"
    /\ IF par
       THEN diffwait' = {1, 2} /\ UNCHANGED <<diffimg1, diffimg2>>
       ELSE /\ diffimg1' = bdiff(img, img1, x1, y1, x2, y2)
            /\ diffimg2' = bdiff(img, img2, x1, y1, x2, y2)
            /\ UNCHANGED diffwait
    /\ pc' = "decide"
    /\ UNCHANGED <<flagVars, envVars, now, proc, ended, frame, argi, canvasVars,
                   statVars, i, x1, y1, x2, y2, clr, saveVars, lnVars, dfVars>>

DiffTask1 ==
    /\ proc = "run" /\ 1 \in diffwait
    /\ diffimg1' = bdiff(img, img1, x1, y1, x2, y2)
    /\ diffwait' = diffwait \ {1}
    /\ UNCHANGED <<flagVars, envVars, now, mainVars, canvasVars, statVars, i,
                   x1, y1, x2, y2, clr, diffimg2, saveVars, lnVars, dfVars>>

DiffTask2 ==
    /\ proc = "run" /\ 2 \in diffwait
    /\ diffimg2' = bdiff(img, img2, x1, y1, x2, y2)
    /\ diffwait' = diffwait \ {2}
    /\ UNCHANGED <<flagVars, envVars, now, mainVars, canvasVars, statVars, i,
                   x1, y1, x2, y2, clr, diffimg1, saveVars, lnVars, dfVars>>

(***************************************************************************)
(* The decision and the copy.  The proposal and the scores are not read    *)
(* again in the iteration and are cleared here.                            *)
(***************************************************************************)
\* Mutant: the decision with <= for <.
ConvergesOnTie(d1, d2) == d1 <= d2

Converges(d1, d2) == d1 < d2

\* Mutant: the decision without diffwait.Wait().
DiffJoinedNoWait(w) == TRUE

\* diffwait.Wait() returns once both goroutines have called Done.
DiffJoined(w) == w = {}

Decide ==
    /\ proc = "run" /\ pc = "decide" /\ DiffJoined(diffwait)
    /\ IF Converges(diffimg1, diffimg2)
       THEN /\ img2' = bcopy(img2, img1, x1, y1, x2, y2)
            /\ statc' = statc + 1
            /\ UNCHANGED img1
       ELSE /\ img1' = bcopy(img1, img2, x1, y1, x2, y2)
            /\ UNCHANGED <<img2, statc>>
    /\ x1' = 0 /\ y1' = 0 /\ x2' = 0 /\ y2' = 0 /\ clr' = Zero
    /\ diffimg1' = 0 /\ diffimg2' = 0
    /\ pc' = "timer"
    /\ UNCHANGED <<flagVars, envVars, now, proc, ended, frame, argi, img, palette,
                   lastSaveTime, lastStatTime, stati, tnow, i, diffwait, saveVars,
                   lnVars, dfVars>>

(***************************************************************************)
(* Every 50th iteration: the clock is read and a checkpoint save is called *)
(* when it is due.                                                         *)
(***************************************************************************)
SaveDue(delay, dur) == delay > 0 /\ dur >= DurationSeconds(delay)

Timer ==
    /\ proc = "run" /\ pc = "timer"
    /\ IF i % StatCheckEvery = 0
       THEN /\ tnow' = now
            /\ IF SaveDue(saveDelay, now - lastSaveTime)
               THEN /\ saveArg' = [kind |-> "incr", num |-> incrSaveNum,
                                   atCall |-> img2.pix]
                    /\ pc' = "save"
               ELSE pc' = "stat" /\ UNCHANGED saveArg
            /\ UNCHANGED i
       ELSE /\ i' = i + 1
            /\ pc' = "loop"
            /\ UNCHANGED <<tnow, saveArg>>
    /\ UNCHANGED <<flagVars, envVars, now, proc, ended, frame, argi, canvasVars,
                   lastSaveTime, lastStatTime, stati, statc, propVars, incrSaveNum,
                   saveNum, saveScratch, savewait, tasks, written, lnVars, dfVars>>

(***************************************************************************)
(* The statistics report, and the loop's i++.                              *)
(***************************************************************************)
Stat ==
    /\ proc = "run" /\ pc = "stat"
    /\ IF tnow - lastStatTime >= DurationSeconds(statDelay)
       THEN stati' = 0 /\ statc' = 0 /\ lastStatTime' = now
       ELSE UNCHANGED <<stati, statc, lastStatTime>>
    /\ tnow' = 0
    /\ i' = i + 1
    /\ pc' = "loop"
    /\ UNCHANGED <<flagVars, envVars, now, proc, ended, frame, argi, canvasVars,
                   lastSaveTime, propVars, saveVars, lnVars, dfVars>>

(***************************************************************************)
(* save: the copy into saveScratch; then the wait for the previous save    *)
(* goroutine, the start of the new one, and the return to the caller (the  *)
(* checkpoint's counter and timer, or sketch's return to main's loop).     *)
(* The goroutine holds img, the canvas that was passed, not a copy.        *)
(***************************************************************************)
SaveCopy ==
    /\ proc = "run" /\ pc = "save"
    /\ saveScratch' =
           LET scratch == IF saveScratch = NilImage
                          THEN NewUniform(img2.w, img2.h, Zero)
                          ELSE saveScratch
           IN  [scratch EXCEPT !.pix = CopyPix(scratch.pix, img2.pix)]
    /\ pc' = "savewait"
    /\ UNCHANGED <<flagVars, envVars, now, proc, ended, frame, argi, canvasVars,
                   statVars, i, propVars, incrSaveNum, saveNum, savewait, saveArg,
                   tasks, written, lnVars, dfVars>>

NewTask(arg) ==
    [kind |-> arg.kind, num |-> arg.num, atCall |-> arg.atCall,
     st |-> "create", row |-> 0, out |-> <<>>,
     live |-> TRUE, w |-> img2.w, h |-> img2.h, pix |-> <<>>]

\* Mutant: save without savewait.Wait().
SaveMayStartNoWait(w) == TRUE

\* savewait.Wait() returns once the counter of the wait group is 0.
SaveMayStart(w) == w = 0

SaveSpawn ==
    /\ proc = "run" /\ pc = "savewait"
    /\ SaveMayStart(savewait)
    /\ savewait' = savewait + 1
    /\ tasks' = Append(tasks, NewTask(saveArg))
    /\ IF saveArg.kind = "incr"
       THEN /\ incrSaveNum' = incrSaveNum + 1
            /\ lastSaveTime' = now
            /\ pc' = "stat"
            /\ UNCHANGED <<saveNum, frame, argi>>
       ELSE /\ saveNum' = saveNum + 1
            /\ frame' = frame + 1
            /\ argi' = IF nargs > 0 THEN argi + 1 ELSE argi
            /\ pc' = MainPc
            /\ UNCHANGED <<incrSaveNum, lastSaveTime>>
    /\ saveArg' = [kind |-> "none", num |-> 0, atCall |-> <<>>]
    /\ UNCHANGED <<flagVars, envVars, now, proc, ended, canvasVars, lastStatTime,
                   stati, statc, tnow, i, propVars, saveScratch, written, lnVars, dfVars>>

(***************************************************************************)
(* The save goroutine: os.Create, which may fail; png.Encode, which reads  *)
(* the canvas row by row while the main goroutine may be writing it; the   *)
(* log line and savewait.Done.                                             *)
(***************************************************************************)
TaskPix(t) == IF t.live THEN img2.pix ELSE t.pix

RowOf(pix, w, r) == SubSeq(pix, r * w + 1, r * w + w)

RemoveAt(seq, k) == SubSeq(seq, 1, k - 1) \o SubSeq(seq, k + 1, Len(seq))

TaskCreateOk(k) ==
    /\ proc = "run" /\ k \in DOMAIN tasks /\ tasks[k].st = "create"
    /\ tasks' = [tasks EXCEPT ![k].st = "encode"]
    /\ UNCHANGED <<flagVars, envVars, now, mainVars, canvasVars, statVars, i,
                   propVars, incrSaveNum, saveNum, saveScratch, savewait, saveArg,
                   written, lnVars, dfVars>>

TaskCreateFail(k) ==
    /\ proc = "run" /\ k \in DOMAIN tasks /\ tasks[k].st = "create"
    /\ proc' = "fatal_create"
    /\ UNCHANGED <<flagVars, envVars, now, ended, pc, frame, argi, canvasVars,
                   statVars, i, propVars, saveVars, lnVars, dfVars>>

TaskEncodeRow(k) ==
    /\ proc = "run" /\ k \in DOMAIN tasks /\ tasks[k].st = "encode"
    /\ tasks[k].row < tasks[k].h
    /\ tasks' = [tasks EXCEPT
                   ![k].out = @ \o RowOf(TaskPix(tasks[k]), tasks[k].w, tasks[k].row),
                   ![k].row = @ + 1]
    /\ UNCHANGED <<flagVars, envVars, now, mainVars, canvasVars, statVars, i,
                   propVars, incrSaveNum, saveNum, saveScratch, savewait, saveArg,
                   written, lnVars, dfVars>>

TaskDone(k) ==
    /\ proc = "run" /\ k \in DOMAIN tasks /\ tasks[k].st = "encode"
    /\ tasks[k].row >= tasks[k].h
    /\ written' = written \cup {[kind |-> tasks[k].kind, num |-> tasks[k].num,
                                 pix |-> tasks[k].out, atCall |-> tasks[k].atCall]}
    /\ savewait' = savewait - 1
    /\ tasks' = RemoveAt(tasks, k)
    /\ UNCHANGED <<flagVars, envVars, now, mainVars, canvasVars, statVars, i,
                   propVars, incrSaveNum, saveNum, saveScratch, saveArg, lnVars, dfVars>>

(***************************************************************************)
(* The clock.  Time that passes is observed at the next reading of the     *)
(* clock only, so it is let pass where a reading comes next.               *)
(***************************************************************************)
Tick ==
    /\ proc = "run" /\ now < MaxTime
    /\ pc \in {"sketch", "timer", "savewait", "stat"}
    /\ now' = now + 1
    /\ UNCHANGED <<flagVars, envVars, mainVars, canvasVars, statVars, i, propVars,
                   saveVars, lnVars, dfVars>>

Next ==
    \/ MainArgs \/ MainFrames \/ SketchStart
    \/ Propose \/ Diff \/ DiffTask1 \/ DiffTask2 \/ Decide
    \/ Timer \/ Stat \/ SaveCopy \/ SaveSpawn
    \/ \E k \in 1..2 : TaskCreateOk(k) \/ TaskCreateFail(k)
                        \/ TaskEncodeRow(k) \/ TaskDone(k)
    \/ Tick

(***************************************************************************)
(* Initial states: the state when main has parsed its flags, for each      *)
(* configuration of a set.                                                 *)
(***************************************************************************)
Image(w, h, pix) == [w |-> w, h |-> h, pix |-> pix]

Src2x2 == Image(2, 2, <<White, Red, Red, bg>>)
Src2x1 == Image(2, 1, <<Grey, White>>)
Src1x1 == Image(1, 1, <<Grey>>)
OpaqueBlack == <<0, 0, 0, 255>>
SrcBlack == Image(2, 2, <<OpaqueBlack, OpaqueBlack, OpaqueBlack, OpaqueBlack>>)

Src1x2 == Image(1, 2, <<White, Red>>)
SrcEmpty == Image(0, 0, <<>>)
SrcNoRows == Image(2, 0, <<>>)

InitProgram(c) ==
    /\ maxIter = c.maxIter /\ frameStart = c.frameStart
    /\ frameLimit = c.frameLimit /\ lineLen = c.lineLen
    /\ palUniq = c.palUniq /\ saveDelay = c.saveDelay
    /\ statDelay = c.statDelay /\ par = c.par
    /\ nargs = c.nargs /\ nfiles = c.nfiles /\ lastfile = c.lastfile
    /\ source = c.source
    /\ now = 0
    /\ proc = "run" /\ ended = FALSE
    /\ pc = IF c.nargs > 0 THEN "args" ELSE "frames"
    /\ frame = c.frameStart /\ argi = 0
    /\ img = NilImage /\ palette = <<>> /\ img1 = NilImage /\ img2 = NilImage
    /\ lastSaveTime = 0 /\ lastStatTime = 0 /\ stati = 0 /\ statc = 0 /\ i = 0
    /\ x1 = 0 /\ y1 = 0 /\ x2 = 0 /\ y2 = 0 /\ clr = Zero
    /\ diffimg1 = 0 /\ diffimg2 = 0 /\ diffwait = {} /\ tnow = 0
    /\ incrSaveNum = 1 /\ saveNum = 1 /\ saveScratch = NilImage /\ savewait = 0
    /\ saveArg = [kind |-> "none", num |-> 0, atCall |-> <<>>]
    /\ tasks = <<>> /\ written = {}

Defaults ==
    [maxIter |-> 1, frameStart |-> 1, frameLimit |-> 0, lineLen |-> 2,
     palUniq |-> FALSE, saveDelay |-> -2, statDelay |-> 2, par |-> FALSE,
     nargs |-> 1, nfiles |-> 1, lastfile |-> "missing", source |-> Src1x2]

\* The convergence loop: one frame of 2x2 pixels given as argument, lines of up
\* to 3 pixels that may leave the image, every iteration budget, both palettes;
\* the same for a frame of 2x1 pixels of other colours;
\* and, for the remaining paths, a frame of 1x2 pixels found by its number and
\* scored by the two diff goroutines.
EngineConfigs ==
    { [Defaults EXCEPT !.maxIter = m, !.palUniq = u, !.source = Src2x2,
                       !.lineLen = 3]
        : m \in 0..MaxIter, u \in BOOLEAN }
    \cup
    { [Defaults EXCEPT !.maxIter = m, !.source = Src2x1, !.lineLen = 3]
        : m \in 0..MaxIter }
    \cup
    { [Defaults EXCEPT !.par = TRUE, !.nargs = 0, !.palUniq = u] : u \in BOOLEAN }
    \cup
    { [Defaults EXCEPT !.maxIter = MaxIter, !.palUniq = u, !.source = SrcBlack,
                       !.lineLen = 3]
        : u \in BOOLEAN }

\* Checkpoints: a frame of 1x2 pixels, save intervals of -1, 0, 0.5, 1 and 1.5
\* seconds, one file given as argument or found by its number.
SaveConfigs ==
    { [Defaults EXCEPT !.maxIter = m, !.saveDelay = d, !.par = p, !.nargs = n]
        : m \in 0..MaxIter, d \in {-2, 0, 1, 2, 3}, p \in BOOLEAN, n \in 0..1 }

\* Frames: files of 1x1 pixel, bounded and unbounded iteration budgets; the
\* files numbered, from 1 or from 3, with each frame limit; or two arguments,
\* without checkpoints and with one at every check; or one argument that
\* decodes to an image without pixels.
FrameConfigs ==
    { [Defaults EXCEPT !.maxIter = m, !.nargs = 0, !.nfiles = k, !.lastfile = f,
                       !.frameLimit = l, !.frameStart = st, !.source = Src1x1]
        : m \in {-1, 0, 1}, k \in 0..MaxFiles, f \in {"missing", "corrupt"},
          l \in 0..(MaxFiles - 1), st \in {1, 3} }
    \cup
    { [Defaults EXCEPT !.maxIter = m, !.nargs = 2, !.nfiles = k, !.lastfile = f,
                       !.saveDelay = d, !.par = TRUE, !.source = Src1x1]
        : m \in {-1, 0, 1}, k \in 0..MaxFiles, f \in {"missing", "corrupt"},
          d \in {-2, 1} }
    \cup
    { [Defaults EXCEPT !.maxIter = m, !.source = z, !.palUniq = u]
        : m \in {0, 1}, z \in {SrcEmpty, SrcNoRows}, u \in BOOLEAN }

LineIdle ==
    /\ lnP = <<0, 0>> /\ lnS = lineSetup(0, 0, 0, 0) /\ lnVisited = <<>>
    /\ lnPc = "idle"

DiffIdle ==
    /\ dfA = NilImage /\ dfB = NilImage /\ dfP = <<0, 0, 0, 0>>
    /\ dfR = <<>> /\ dfPc = "idle"

Init == LineIdle /\ DiffIdle /\ \E c \in EngineConfigs : InitProgram(c)

InitSave == LineIdle /\ DiffIdle /\ \E c \in SaveConfigs : InitProgram(c)

InitFrames == LineIdle /\ DiffIdle /\ \E c \in FrameConfigs : InitProgram(c)

Spec == Init /\ [][Next]_vars

SpecSave == InitSave /\ [][Next]_vars

SpecFrames == InitFrames /\ [][Next]_vars

(***************************************************************************)
(* One call of line on its own, followed pass by pass of its loop: the     *)
(* pixel set, then either the exit or the update of the loop variables.    *)
(***************************************************************************)
LinePlot ==
    /\ lnPc = "plot"
    /\ lnVisited' = Append(lnVisited, <<lnS.x0, lnS.y0>>)
    /\ lnPc' = IF lineAtEnd(lnS) THEN "ret" ELSE "step"
    /\ UNCHANGED <<flagVars, envVars, now, mainVars, canvasVars, statVars, i,
                   propVars, saveVars, lnP, lnS, dfVars>>

LineAdvance ==
    /\ lnPc = "step"
    /\ lnS' = lineStep(lnS)
    /\ lnPc' = "plot"
    /\ UNCHANGED <<flagVars, envVars, now, mainVars, canvasVars, statVars, i,
                   propVars, saveVars, lnP, lnVisited, dfVars>>

NextLine == LinePlot \/ LineAdvance

Coords == (-MaxCoord)..MaxCoord

InitLine ==
    /\ InitProgram(Defaults)
    /\ DiffIdle
    /\ \E px \in Coords, py \in Coords, qx \in Coords, qy \in Coords :
          /\ lnP = <<px, py>>
          /\ lnS = lineSetup(px, py, qx, qy)
    /\ lnVisited = <<>>
    /\ lnPc = "plot"

\* The loop of line runs on: the goroutine that executes it is scheduled.
SpecLine == InitLine /\ [][NextLine]_vars /\ WF_vars(NextLine)

(***************************************************************************)
(* bdiff by itself: two images of 2x2 pixels, opaque or not, and endpoints *)
(* inside and outside of them; the score is taken of the pair in both      *)
(* orders and of the first image with itself.                              *)
(***************************************************************************)
Teal == <<0, 128, 128, 64>>

DiffImages ==
    { Src2x2, SrcBlack, Image(2, 2, <<Zero, Grey, Teal, Red>>),
      Image(2, 2, <<Teal, White, White, Zero>>) }

DiffCoords == (-1)..MaxCoord

DiffCall ==
    /\ dfPc = "call"
    /\ dfR' = [ab |-> bdiff(dfA, dfB, dfP[1], dfP[2], dfP[3], dfP[4]),
               ba |-> bdiff(dfB, dfA, dfP[1], dfP[2], dfP[3], dfP[4]),
               aa |-> bdiff(dfA, dfA, dfP[1], dfP[2], dfP[3], dfP[4])]
    /\ dfPc' = "ret"
    /\ UNCHANGED <<flagVars, envVars, now, mainVars, canvasVars, statVars, i,
                   propVars, saveVars, lnVars, dfA, dfB, dfP>>

NextDiff == DiffCall

InitDiff ==
    /\ InitProgram(Defaults)
    /\ LineIdle
    /\ dfA \in DiffImages /\ dfB \in DiffImages
    /\ dfP \in DiffCoords \X DiffCoords \X DiffCoords \X DiffCoords
    /\ dfR = <<>> /\ dfPc = "call"

SpecDiff == InitDiff /\ [][NextDiff]_vars

(***************************************************************************)
(* Notions the properties are stated with.                                 *)
(***************************************************************************)
Range(seq) == {seq[k] : k \in DOMAIN seq}

Positions(im) == (0..(im.w - 1)) \X (0..(im.h - 1))

\* The pixels of the proposed line: those the draw visits.
LineSet(px, py, qx, qy) == Range(linePath(lineSetup(px, py, qx, qy)))

\* The squared distance of two colours, channel by channel.
ChannelDist(c, d) ==
    (c[1] - d[1]) * (c[1] - d[1]) + (c[2] - d[2]) * (c[2] - d[2])
  + (c[3] - d[3]) * (c[3] - d[3]) + (c[4] - d[4]) * (c[4] - d[4])

RECURSIVE DistOver(_, _, _)
DistOver(S, a, b) ==
    IF S = {} THEN 0
    ELSE LET p == CHOOSE q \in S : TRUE
         IN  ChannelDist(RGBAAt(a, p[1], p[2]), RGBAAt(b, p[1], p[2]))
             + DistOver(S \ {p}, a, b)

TotalDist(a, b) == DistOver(Positions(a), a, b)

\* Canvas to agrees with canvas src on the pixels of S and with canvas from on
\* all others, and has from's size.
Overwritten(to, from, src, S) ==
    /\ to.w = from.w /\ to.h = from.h
    /\ \A p \in Positions(from) :
          RGBAAt(to, p[1], p[2]) =
              IF p \in S THEN RGBAAt(src, p[1], p[2]) ELSE RGBAAt(from, p[1], p[2])

DecideStep == pc = "decide" /\ pc' = "timer"

SketchStep == pc = "sketch" /\ pc' = "loop"

(***************************************************************************)
(* C1.  In the decision of every iteration, the scores being those of the  *)
(* source against img1 and against img2 over the pixels of the line: if    *)
(* diffimg1 < diffimg2, exactly the line's pixels of img2 take img1's      *)
(* values, img1 stays as drawn and statc grows by one; otherwise (a tie    *)
(* too) exactly the line's pixels of img1 take img2's values and img2 and  *)
(* statc stay.                                                             *)
(***************************************************************************)
C1_DecisionRule ==
    [][DecideStep =>
        LET L == LineSet(x1, y1, x2, y2)
        IN  /\ diffimg1 = DistOver(L, img, img1)
            /\ diffimg2 = DistOver(L, img, img2)
            /\ IF diffimg1 < diffimg2
               THEN /\ Overwritten(img2', img2, img1, L)
                    /\ img1' = img1
                    /\ statc' = statc + 1
               ELSE /\ Overwritten(img1', img1, img2, L)
                    /\ img2' = img2
                    /\ statc' = statc]_vars

\* Both branches have been taken: the second decision is over, one of the two
\* proposals converged, and a line of the source's colour is on both canvases.
C1_Witness ==
    /\ pc = "timer" /\ i = 1 /\ stati = 2 /\ statc = 1
    /\ img1 = img2
    /\ img2 # NewUniform(img2.w, img2.h, bg)

(***************************************************************************)
(* C2.  Within a run of sketch the squared distance of img2 to the source, *)
(* over the whole image and over the pixels of the current line, never     *)
(* grows: it falls in a decision counted as a convergence and stays in     *)
(* every other step.                                                       *)
(***************************************************************************)
C2_DistanceNeverGrows ==
    [][~SketchStep =>
        LET L == LineSet(x1, y1, x2, y2)
            before == TotalDist(img, img2)
            after == TotalDist(img, img2')
            lineBefore == DistOver(L, img, img2)
            lineAfter == DistOver(L, img, img2')
        IN  /\ after <= before
            /\ DecideStep =>
                  IF statc' = statc + 1
                  THEN lineAfter < lineBefore /\ after < before
                  ELSE lineAfter = lineBefore /\ after = before
            /\ ~DecideStep => after = before]_vars

\* Two convergences in a row: img2 is closer to the source than the black canvas.
C2_Witness ==
    /\ pc = "timer" /\ statc = 2
    /\ TotalDist(img, img2) < TotalDist(img, NewUniform(img.w, img.h, bg))

(***************************************************************************)
(* C3.  Every file a save goroutine has written holds the pixels img2 had  *)
(* when save was called.                                                   *)
(***************************************************************************)
C3_SavedIsSnapshot == \A f \in written : f.pix = f.atCall

(***************************************************************************)
(* C4.  A save goroutine whose output file cannot be created does not end  *)
(* the process.                                                            *)
(***************************************************************************)
C4_SaveFailureSparesLoop == proc # "fatal_create"

(***************************************************************************)
(* C7.  Without file arguments and with -n n, n >= 1: never more than n    *)
(* frames are sketched, and when "end of frames" is logged exactly n have  *)
(* been.                                                                   *)
(***************************************************************************)
C7_ExactlyNFrames ==
    (nargs = 0 /\ frameLimit >= 1) =>
        /\ frame - frameStart <= frameLimit
        /\ ended => frame - frameStart = frameLimit

(***************************************************************************)
(* C8.  The final save of a run of sketch is called when exactly maxIter   *)
(* iterations have run, maxIter >= 0, and never when maxIter < 0; it is    *)
(* called once a run, the k-th frame's with the number k: whenever main's  *)
(* loop is reached, saveNum is one more than the frames sketched, whatever *)
(* incrSaveNum is.                                                         *)
(***************************************************************************)
FinalSaveCalled == pc = "loop" /\ pc' = "save"

C8_IterationBudget ==
    [][/\ FinalSaveCalled =>
             /\ maxIter >= 0 /\ i = maxIter
             /\ saveArg'.kind = "frame"
             /\ saveArg'.num = frame - frameStart + 1
       /\ (pc = "loop" /\ pc' = "diff") => (i < maxIter \/ maxIter < 0)
       /\ (pc # "save" /\ pc' = "save" /\ saveArg'.kind = "frame") => FinalSaveCalled
       /\ (pc # MainPc /\ pc' = MainPc) =>
             /\ pc = "savewait" /\ saveArg.kind = "frame"
             /\ saveNum' = saveNum + 1
             /\ frame' = frame + 1
       /\ pc' = MainPc => saveNum' = frame' - frameStart + 1]_vars

\* The final save of a second frame is called after two iterations, while a
\* checkpoint has been numbered too.
C8_Witness ==
    /\ pc = "save" /\ saveArg.kind = "frame" /\ saveArg.num = 2
    /\ maxIter = 1 /\ i = 1 /\ incrSaveNum = 3

(***************************************************************************)
(* C9.  A checkpoint save is called only when the save interval is         *)
(* positive and at least that interval has passed since the last           *)
(* checkpoint (both in half seconds).                                      *)
(***************************************************************************)
CheckpointCalled == pc = "timer" /\ pc' = "save"

C9_CheckpointOnlyWhenDue ==
    [][CheckpointCalled => (saveDelay > 0 /\ now - lastSaveTime >= saveDelay)]_vars

(***************************************************************************)
(* C10.  img2 evolves as the canvas of single-canvas hill climbing does:   *)
(* black at the start; in an iteration the line is drawn, kept if the      *)
(* distance to the source over the line's pixels fell and undone if not;   *)
(* unchanged by every other step.                                          *)
(***************************************************************************)
Drawn(canvas, S, c) ==
    [canvas EXCEPT !.pix = [k \in DOMAIN canvas.pix |->
        IF <<(k - 1) % canvas.w, (k - 1) \div canvas.w>> \in S THEN c
        ELSE canvas.pix[k]]]

HillClimbStep(canvas, srcimg, px, py, qx, qy, c) ==
    LET L == LineSet(px, py, qx, qy)
        drawn == Drawn(canvas, L, c)
    IN  IF DistOver(L, srcimg, drawn) < DistOver(L, srcimg, canvas)
        THEN drawn ELSE canvas

C10_HillClimbing ==
    [][/\ SketchStep => img2' = NewUniform(source.w, source.h, bg)
       /\ DecideStep => img2' = HillClimbStep(img2, img, x1, y1, x2, y2, clr)
       /\ (~SketchStep /\ ~DecideStep) => img2' = img2]_vars

\* After a kept line and a second decision img2 is no longer black.
C10_Witness ==
    /\ pc = "timer" /\ i = 1 /\ statc >= 1
    /\ img2 # NewUniform(img2.w, img2.h, bg)
    /\ img2.w = 2 /\ img2.h = 2

(***************************************************************************)
(* C5.  The loop of line ends; it sets the first endpoint first and the    *)
(* second last; consecutive pixels differ, by at most 1 in x and in y; no  *)
(* pixel is set twice; equal endpoints give one pixel.                     *)
(***************************************************************************)
Adjacent(p, q) == p # q /\ Abs(p[1] - q[1]) <= 1 /\ Abs(p[2] - q[2]) <= 1

LineSafe ==
    /\ lnVisited # <<>> => lnVisited[1] = lnP
    /\ \A k \in 1..(Len(lnVisited) - 1) : Adjacent(lnVisited[k], lnVisited[k + 1])
    /\ \A j, k \in DOMAIN lnVisited : j # k => lnVisited[j] # lnVisited[k]
    /\ lnPc = "ret" =>
          /\ lnVisited[Len(lnVisited)] = <<lnS.x1, lnS.y1>>
          /\ lnP = <<lnS.x1, lnS.y1>> => Len(lnVisited) = 1

C5_LineTraversal == []LineSafe /\ <>(lnPc = "ret")

\* A line of slope 2/3 has been traced, and so has a single point.
C5_Witness ==
    /\ lnPc = "ret" /\ lnS.dx = 3 /\ lnS.dy = 2 /\ Len(lnVisited) = 4
    /\ lnVisited[1] = lnP /\ lnVisited[4] = <<lnS.x1, lnS.y1>>

(***************************************************************************)
(* C6.  The pixels visited from P to Q are those visited from Q to P.      *)
(***************************************************************************)
Reverse == linePath(lineSetup(lnS.x1, lnS.y1, lnP[1], lnP[2]))

C6_SameSetSwapped == lnPc = "ret" => Range(Reverse) = Range(lnVisited)

(***************************************************************************)
(* C6, amended.  The traversal from Q to P is the one from P to Q          *)
(* reflected in the midpoint of P and Q: its k-th pixel is P + Q minus the *)
(* k-th pixel from P.  The two pixel sets are equal when the line is       *)
(* horizontal, vertical or diagonal.                                       *)
(***************************************************************************)
C6_ReflectedWhenSwapped ==
    lnPc = "ret" =>
        /\ Len(Reverse) = Len(lnVisited)
        /\ \A k \in DOMAIN lnVisited :
              Reverse[k] = <<lnP[1] + lnS.x1 - lnVisited[k][1],
                             lnP[2] + lnS.y1 - lnVisited[k][2]>>
        /\ (lnS.dx = 0 \/ lnS.dy = 0 \/ lnS.dx = lnS.dy) =>
              Range(Reverse) = Range(lnVisited)

\* The line from (0,0) to (2,1) passes (1,0); the one back passes (1,1).
C6_Witness ==
    /\ lnPc = "ret" /\ lnP = <<0, 0>> /\ lnS.x1 = 2 /\ lnS.y1 = 1
    /\ <<1, 0>> \in Range(lnVisited) /\ <<1, 1>> \in Range(Reverse)

(***************************************************************************)
(* C11.  When the process has ended by main's return, the final save of    *)
(* every frame sketched has been written: frame%03d.png exists for each    *)
(* number below saveNum.                                                   *)
(***************************************************************************)
C11_FinalSavesWritten ==
    proc = "done" =>
        \A k \in 1..(saveNum - 1) :
            \E f \in written : f.kind = "frame" /\ f.num = k

(***************************************************************************)
(* C12.  For a source without pixels sketch stops before its loop: no      *)
(* iteration is begun, no final save is called and the process does not    *)
(* panic inside the loop.                                                  *)
(***************************************************************************)
ZeroArea(im) == im.w = 0 \/ im.h = 0

C12_ZeroAreaRejected ==
    ZeroArea(source) =>
        /\ stati = 0
        /\ proc # "panic"
        /\ saveArg.kind # "frame"
        /\ saveNum = 1

(***************************************************************************)
(* C13.  For a source whose pixels are all opaque black, with the palette  *)
(* deduplicated, the palette has one entry, canvas img2 is opaque black    *)
(* everywhere at every point of the run and no iteration is counted as a   *)
(* convergence.                                                            *)
(***************************************************************************)
AllOpaqueBlack(im) == \A k \in 1..Len(im.pix) : im.pix[k] = <<0, 0, 0, 255>>

C13_BlackStaysBlack ==
    (AllOpaqueBlack(source) /\ ~ZeroArea(source) /\ palUniq /\ img = source) =>
        /\ Len(palette) = 1
        /\ AllOpaqueBlack(img2)
        /\ img2.w = source.w /\ img2.h = source.h
        /\ statc = 0

C13_Witness ==
    /\ AllOpaqueBlack(source) /\ ~ZeroArea(source) /\ palUniq /\ img = source
    /\ i = MaxIter /\ stati = MaxIter /\ pc = "save"

(***************************************************************************)
(* C14.  The palette of a frame, against the frame's pixels in raster      *)
(* order.  With -p: no colour occurs twice, there are as many entries as   *)
(* distinct colours in the image, and the entries are in the order of the  *)
(* colours' first occurrences.  Without -p: there are w*h entries and      *)
(* entry y*w + x (from 0) is the colour of pixel (x, y).                   *)
(***************************************************************************)
FirstOccurrence(im, c) ==
    CHOOSE k \in 1..Len(im.pix) :
        im.pix[k] = c /\ \A j \in 1..(k - 1) : im.pix[j] # c

C14_PaletteOfImage ==
    (img = source /\ ~ZeroArea(source)) =>
        IF palUniq
        THEN /\ \A a, b \in 1..Len(palette) : a # b => palette[a] # palette[b]
             /\ Range(palette) = Range(img.pix)
             /\ Len(palette) = Cardinality(Range(img.pix))
             /\ \A a, b \in 1..Len(palette) :
                    a < b => FirstOccurrence(img, palette[a])
                                 < FirstOccurrence(img, palette[b])
        ELSE /\ Len(palette) = img.w * img.h
             /\ \A y \in 0..(img.h - 1) : \A x \in 0..(img.w - 1) :
                    palette[y * img.w + x + 1] = img.pix[y * img.w + x + 1]

C14_Witness ==
    /\ img = source /\ palUniq /\ pc = "loop"
    /\ Len(palette) > 1 /\ Len(palette) < img.w * img.h

(***************************************************************************)
(* C15.  The canvases are a function of the source, the configuration and  *)
(* the random draws: they are cleared to bg when sketch starts, a proposal *)
(* draws its line on img1, the decision is the one of the sequential       *)
(* computation of the two scores whether or not -P is given and in         *)
(* whatever order the two diff goroutines ran, both having finished, and   *)
(* no other step changes a canvas.                                         *)
(***************************************************************************)
ProposeStep == pc = "loop" /\ pc' = "diff"

SequentialOutcome ==
    IF bdiff(img, img1, x1, y1, x2, y2) < bdiff(img, img2, x1, y1, x2, y2)
    THEN <<img1, bcopy(img2, img1, x1, y1, x2, y2)>>
    ELSE <<bcopy(img1, img2, x1, y1, x2, y2), img2>>

CanvasFunction ==
    /\ SketchStep =>
           /\ img1' = NewUniform(source.w, source.h, <<0, 0, 0, 255>>)
           /\ img2' = img1'
    /\ ProposeStep =>
           /\ img1' = line(img1, x1', y1', x2', y2', clr')
           /\ img2' = img2
    /\ DecideStep =>
           /\ diffwait = {}
           /\ <<img1', img2'>> = SequentialOutcome
    /\ ~(SketchStep \/ ProposeStep \/ DecideStep) =>
           /\ img1' = img1
           /\ img2' = img2

C15_Deterministic == [][CanvasFunction]_vars

C15_Witness ==
    /\ par /\ pc = "decide" /\ diffwait = {1}
    /\ diffimg2 > 0 /\ bdiff(img, img1, x1, y1, x2, y2) < diffimg2

(***************************************************************************)
(* C16.  The score bdiff returns for two images of equal size and any      *)
(* endpoints is 0 when the two images are the same one, is the same with   *)
(* the images exchanged, is not negative, and is the sum, over the pixels  *)
(* of the line, of the squared differences of the channels R, G, B and A.  *)
(***************************************************************************)
C16_ScoreProperties ==
    dfPc = "ret" =>
        /\ dfR.aa = 0
        /\ dfR.ab = dfR.ba
        /\ dfR.ab >= 0
        /\ dfR.ab = DistOver(LineSet(dfP[1], dfP[2], dfP[3], dfP[4]), dfA, dfB)

C16_Witness ==
    /\ dfPc = "ret" /\ dfA # dfB /\ dfR.ab > 0
    /\ Cardinality(LineSet(dfP[1], dfP[2], dfP[3], dfP[4])) > 1
    /\ \E p \in LineSet(dfP[1], dfP[2], dfP[3], dfP[4]) : ~InRect(dfA, p[1], p[2])

(***************************************************************************)
(* C17.  Canvases img1 and img2 hold the same pixels at every position     *)
(* when the loop of sketch starts and after each of its iterations; from   *)
(* the draw of a proposal to the copy they have the same size and differ   *)
(* at most on the pixels of the proposed line.                             *)
(***************************************************************************)
InIteration == pc \in {"diff", "decide"}

C17_CanvasesAgree ==
    IF InIteration
    THEN /\ img1.w = img2.w /\ img1.h = img2.h
         /\ \A p \in Positions(img1) \ LineSet(x1, y1, x2, y2) :
                RGBAAt(img1, p[1], p[2]) = RGBAAt(img2, p[1], p[2])
    ELSE img1 = img2

C17_Witness ==
    /\ pc = "timer" /\ stati = 2 /\ statc = 1 /\ img1 = img2
    /\ \E p \in Positions(img2) : RGBAAt(img2, p[1], p[2]) # <<0, 0, 0, 255>>
    /\ \E p \in Positions(img2) : RGBAAt(img2, p[1], p[2]) = <<0, 0, 0, 255>>

(***************************************************************************)
(* C18.  For the same endpoints the loops of line, bdiff and bcopy visit   *)
(* the same pixels in the same order: the pixels a call of line has set    *)
(* when it returns are, in order, those bdiff scores and those bcopy       *)
(* copies.                                                                 *)
(***************************************************************************)
C18_SameTraversal ==
    lnPc = "ret" =>
        /\ lnVisited = bdiffPath(bdiffSetup(lnP[1], lnP[2], lnS.x1, lnS.y1))
        /\ lnVisited = bcopyPath(bcopySetup(lnP[1], lnP[2], lnS.x1, lnS.y1))

C18_Witness ==
    /\ lnPc = "ret" /\ lnS.dx = 1 /\ lnS.dy = 2
    /\ Len(lnVisited) = 3
    /\ lnVisited = bdiffPath(bdiffSetup(lnP[1], lnP[2], lnS.x1, lnS.y1))

(***************************************************************************)
(* C19.  A proposal whose line leaves the image is drawn, scored and       *)
(* copied without a panic.  The canvases keep their size, so nothing is    *)
(* written outside of them; a position outside adds 0 to either score, so  *)
(* each score is the sum over the line's pixels inside; and the draw and   *)
(* the copy change no pixel that is not on the line.                       *)
(***************************************************************************)
ProposalLeavesImage ==
    \E p \in LineSet(x1, y1, x2, y2) : ~InRect(img, p[1], p[2])

SameSize(a, b) == a.w = b.w /\ a.h = b.h /\ Len(a.pix) = Len(b.pix)

SameOffLine(a, b, S) ==
    \A p \in Positions(b) \ S :
        a.pix[p[2] * a.w + p[1] + 1] = b.pix[p[2] * b.w + p[1] + 1]

ScoresClipped ==
    /\ \A p \in LineSet(x1, y1, x2, y2) \ Positions(img) :
          calcDiff(img, img1, p[1], p[2]) = 0 /\ calcDiff(img, img2, p[1], p[2]) = 0
    /\ diffimg1 = DistOver(LineSet(x1, y1, x2, y2) \cap Positions(img), img, img1)
    /\ diffimg2 = DistOver(LineSet(x1, y1, x2, y2) \cap Positions(img), img, img2)

OutOfBoundsTolerated ==
    /\ (ProposeStep /\ ProposalLeavesImage') =>
           /\ proc' = "run"
           /\ SameSize(img1', img1)
           /\ SameOffLine(img1', img1, LineSet(x1', y1', x2', y2'))
           /\ img2' = img2
    /\ (DecideStep /\ ProposalLeavesImage) =>
           /\ proc' = "run"
           /\ ScoresClipped
           /\ SameSize(img1', img1) /\ SameSize(img2', img2)
           /\ SameOffLine(img1', img1, LineSet(x1, y1, x2, y2))
           /\ SameOffLine(img2', img2, LineSet(x1, y1, x2, y2))

C19_OutOfBounds == [][OutOfBoundsTolerated]_vars

C19_Witness ==
    /\ pc = "decide" /\ diffwait = {} /\ proc = "run" /\ ProposalLeavesImage
    /\ ~InRect(img, x2, y2) /\ diffimg1 < diffimg2 /\ stati = 2

(***************************************************************************)
(* C20.  At most one save goroutine has not yet called savewait.Done, and  *)
(* the wait group counts it: a call of save, for a checkpoint or for the   *)
(* final image of a frame, starts its goroutine only when the one started  *)
(* by the call before has finished.                                        *)
(***************************************************************************)
C20_OneSaveOutstanding ==
    /\ Len(tasks) <= 1
    /\ savewait = Len(tasks)

C20_Witness ==
    /\ pc = "savewait" /\ saveArg.kind = "frame"
    /\ Len(tasks) = 1 /\ tasks[1].kind = "incr" /\ tasks[1].st # "create"
    /\ savewait = 1

====
